---- MODULE Spec2Model ----
(***************************************************************************)
(* Model of Scripts/clean_image_background.py: the background matcher      *)
(* (is_within_bounds, is_background), the HSV conversion, process_image in *)
(* flood mode and in non-flood mode, and the argument parsing of main.     *)
(* Spec runs process_image; SpecAnyOrder pops the flood worklist at any    *)
(* position; SpecMatcher calls the matcher on single pixels; SpecMain      *)
(* parses the command line and then runs process_image.                    *)
(* SpecForms models the form-map helpers of build_all_form_display_map.py, *)
(* SpecPacking the canvas layout of build_home_sprite_combined_image.py.   *)
(***************************************************************************)
EXTENDS Integers, Sequences, FiniteSets, TLC

\* ---------------------------------------------------------------- bounds
MaxH == 3
MaxLight == 2
MaxMatching == 3
MaxCalls == 3
MaxSprites == 17

\* ------------------------------------------------------------ input sets
Widths == 0 .. 3

Transparent == <<0, 0, 0, 0>>
Dark == <<10, 10, 10, 255>>
Light == <<200, 200, 200, 255>>

\* colour ranges given on the command line: lower, upper, use_hsv; the first
\* holds Dark only, the second (in HSV) holds Light only
Configs ==
    { [lower |-> <<0, 0, 0>>, upper |-> <<20, 20, 20>>, hsv |-> FALSE],
      [lower |-> <<0, 0, 100>>, upper |-> <<179, 50, 255>>, hsv |-> TRUE] }

\* manual point lists given with -p: none, a border point, an inner point, a
\* repeated point, two points around a point above the image, and a list of
\* points left of and above the image; <<1, 1>> and <<0, 1>> are outside too
\* when the image is one pixel wide or high (x >= width, y >= height)
PointLists ==
    { <<>>,
      << <<0, 1>> >>,
      << <<1, 1>> >>,
      << <<0, 1>>, <<0, 1>> >>,
      << <<0, 1>>, <<0, -1>>, <<1, 1>> >>,
      << <<-1, 0>>, <<0, -1>> >> }

VARIABLES
    width, height,      \* img.size
    orig,               \* the raster as decoded from the input file
    pixels,             \* img.load(): the raster mutated in place
    lower_color, upper_color, inverse, flood_fill, use_hsv, manual_points,
    visited, stack, count,
    scan,               \* number of pixels the non-flood scan has visited
    pc,                 \* position in process_image
    saved,              \* the output file: <<>> until img.save, then <<raster>>
    pushed,             \* history: every coordinate appended to stack, in order
    erased,             \* history: every coordinate assigned (0,0,0,0), in order
    fp_below,           \* float rounding: [h, s], see rgb_to_hsv_opencv
    sample,             \* the pixel handed to the matcher
    within, bg, hsv_out,\* results of is_within_bounds, is_background, HSV
    prev,               \* history: <<>> or <<the previous matcher call>>
    argv,               \* main: args.lower_color, args.upper_color, args.points
    exit_status,        \* main: <<>> while running, else <<[code, stderr]>>
    all_form_map,       \* build_all_form_display_map: the global dict, as the
                        \* sequence of its <<key, list>> items in dict order
    call_log,           \* history: <<>>, or <<[n, fresh, ok]>> after n calls
    n_sprites, sprite_size, n_sprites_in_row, n_sprites_in_col,
    sprite_i,           \* build_home_sprite_combined_image: loop index i
    spriteLocations     \* the locations assigned so far, in index order

vars == << width, height, orig, pixels, lower_color, upper_color, inverse,
           flood_fill, use_hsv, manual_points, visited, stack, count, scan,
           pc, saved, pushed, erased, fp_below, sample, within, bg, hsv_out,
           prev, argv, exit_status, all_form_map, call_log, n_sprites,
           sprite_size, n_sprites_in_row, n_sprites_in_col, sprite_i,
           spriteLocations >>

mainVars == << argv, exit_status >>

formVars == << all_form_map, call_log >>

packVars == << n_sprites, sprite_size, n_sprites_in_row, n_sprites_in_col,
               sprite_i, spriteLocations >>

\* process_image is called directly, not through main
MainIdle == argv = <<>> /\ exit_status = <<>>

\* the other scripts are not running
FormsIdle == all_form_map = <<>> /\ call_log = <<>>

PackIdle ==
    /\ n_sprites = 0
    /\ sprite_size = 0
    /\ n_sprites_in_row = 0
    /\ n_sprites_in_col = 0
    /\ sprite_i = 0
    /\ spriteLocations = <<>>

\* ------------------------------------------------------- pure functions
Max3(a, b, c) == IF a >= b /\ a >= c THEN a ELSE IF b >= c THEN b ELSE c
Min3(a, b, c) == IF a <= b /\ a <= c THEN a ELSE IF b <= c THEN b ELSE c

\* int(x) of the float product whose exact value is n/d.  The product is
\* computed in binary floating point: when n/d is a positive integer it can
\* come out just below that integer, and int() then gives one less.  Which of
\* the two happens is left open (below = TRUE: one less).
IntOfProduct(n, d, below) ==
    IF below /\ n > 0 /\ n % d = 0 THEN n \div d - 1 ELSE n \div d

rgb_to_hsv_opencv_NoWrap(r, g, b) ==
    LET maxc == Max3(r, g, b)
        minc == Min3(r, g, b)
        rangec == maxc - minc
        num == IF r = maxc THEN g - b
               ELSE IF g = maxc THEN 2 * rangec + b - r
               ELSE 4 * rangec + r - g
    IN  IF minc = maxc THEN <<0, 0, maxc>>
        ELSE << IntOfProduct(179 * num, 6 * rangec, fp_below.h),
                IntOfProduct(255 * rangec, maxc, fp_below.s /\ minc > 0),
                maxc >>

\* colorsys.rgb_to_hsv on (r/255, g/255, b/255), then int(h*179), int(s*255),
\* int(v*255); h = ((num/rangec)/6) % 1.0, s = rangec/maxc, v = maxc/255.
\* int(v*255) is maxc for every maxc in 0..255; with minc = 0 the float s is
\* (x - 0.0)/x = 1.0 and int(s*255) is 255.
rgb_to_hsv_opencv(r, g, b) ==
    LET maxc == Max3(r, g, b)
        minc == Min3(r, g, b)
        rangec == maxc - minc
        num == IF r = maxc THEN g - b
               ELSE IF g = maxc THEN 2 * rangec + b - r
               ELSE 4 * rangec + r - g
    IN  IF minc = maxc THEN <<0, 0, maxc>>
        ELSE << IntOfProduct(179 * (num % (6 * rangec)), 6 * rangec,
                             fp_below.h),
                IntOfProduct(255 * rangec, maxc, fp_below.s /\ minc > 0),
                maxc >>

is_within_bounds_AlphaSlice(pixel, lower_bound, upper_bound, hsv) ==
    LET rgb == <<pixel[2], pixel[3], pixel[4]>>
        val == IF hsv THEN rgb_to_hsv_opencv(rgb[1], rgb[2], rgb[3]) ELSE rgb
    IN  \A i \in 1..3 : lower_bound[i] <= val[i] /\ val[i] <= upper_bound[i]

is_within_bounds_Exclusive(pixel, lower_bound, upper_bound, hsv) ==
    LET rgb == <<pixel[1], pixel[2], pixel[3]>>
        val == IF hsv THEN rgb_to_hsv_opencv(rgb[1], rgb[2], rgb[3]) ELSE rgb
    IN  \A i \in 1..3 : lower_bound[i] < val[i] /\ val[i] < upper_bound[i]

is_within_bounds(pixel, lower_bound, upper_bound, hsv) ==
    LET rgb == <<pixel[1], pixel[2], pixel[3]>>
        val == IF hsv THEN rgb_to_hsv_opencv(rgb[1], rgb[2], rgb[3]) ELSE rgb
    IN  \A i \in 1..3 : lower_bound[i] <= val[i] /\ val[i] <= upper_bound[i]

is_background_NeverWhenInverse(p) ==
    is_within_bounds(p, lower_color, upper_color, use_hsv) /\ ~inverse

is_background_IgnoreInverse(p) ==
    is_within_bounds(p, lower_color, upper_color, use_hsv)

is_background(p) ==
    is_within_bounds(p, lower_color, upper_color, use_hsv) # inverse

\* ------------------------------------------------------------ the raster
Coords == (0 .. width - 1) \X (0 .. height - 1)

InBounds(p) == 0 <= p[1] /\ p[1] < width /\ 0 <= p[2] /\ p[2] < height

\* the two border loops, in the order the code enumerates them
BorderSeq ==
    [ k \in 1 .. 2 * width |->
        << (k - 1) \div 2, IF (k - 1) % 2 = 0 THEN 0 ELSE height - 1 >> ]
    \o
    [ k \in 1 .. 2 * (IF height > 2 THEN height - 2 ELSE 0) |->
        << IF (k - 1) % 2 = 0 THEN 0 ELSE width - 1, 1 + (k - 1) \div 2 >> ]

Offsets_NoDown == << <<-1, 0>>, <<1, 0>>, <<0, -1>> >>

Offsets_Diagonal ==
    << <<-1, 0>>, <<1, 0>>, <<0, -1>>, <<0, 1>>,
       <<-1, -1>>, <<1, -1>>, <<-1, 1>>, <<1, 1>> >>

Offsets == << <<-1, 0>>, <<1, 0>>, <<0, -1>>, <<0, 1>> >>

\* ------------------------------------------- process_image as a record
Cur ==
    [ pc |-> pc, pixels |-> pixels, visited |-> visited, stack |-> stack,
      count |-> count, scan |-> scan, saved |-> saved,
      pushed |-> pushed, erased |-> erased ]

Push_NoVisited(s, p) ==
    [ s EXCEPT !.stack = Append(@, p), !.pushed = Append(@, p) ]

\* visited.add(p); stack.append(p)
Push(s, p) ==
    [ s EXCEPT !.visited = @ \cup {p},
               !.stack = Append(@, p),
               !.pushed = Append(@, p) ]

Erase_Fade(s, p) ==
    IF p \in DOMAIN s.pixels
    THEN [ s EXCEPT !.pixels = [ @ EXCEPT ![p] = << @[1] \div 2, @[2] \div 2,
                                                    @[3] \div 2, 0 >> ],
                    !.count = @ + 1,
                    !.erased = Append(@, p) ]
    ELSE [ s EXCEPT !.pc = "failed" ]

Erase_OpaqueBlack(s, p) ==
    IF p \in DOMAIN s.pixels
    THEN [ s EXCEPT !.pixels = [ @ EXCEPT ![p] = <<0, 0, 0, 255>> ],
                    !.count = @ + 1,
                    !.erased = Append(@, p) ]
    ELSE [ s EXCEPT !.pc = "failed" ]

Erase_NoCount(s, p) ==
    IF p \in DOMAIN s.pixels
    THEN [ s EXCEPT !.pixels = [ @ EXCEPT ![p] = Transparent ],
                    !.erased = Append(@, p) ]
    ELSE [ s EXCEPT !.pc = "failed" ]

\* pixels[p] = (0, 0, 0, 0); count += 1   (an index outside the image raises)
Erase(s, p) ==
    IF p \in DOMAIN s.pixels
    THEN [ s EXCEPT !.pixels = [ @ EXCEPT ![p] = Transparent ],
                    !.count = @ + 1,
                    !.erased = Append(@, p) ]
    ELSE [ s EXCEPT !.pc = "failed" ]

CanSeedBorder_NoVisited(vis, px, p) == is_background(px[p])

CanSeedBorder_NoMatch(vis, px, p) == p \notin vis

CanSeedBorder(vis, px, p) == p \notin vis /\ is_background(px[p])

CanSeedManual_NoVisited(vis, p) == InBounds(p)

CanSeedManual_OnlyMatching(vis, p) ==
    InBounds(p) /\ p \notin vis /\ is_background(pixels[p])

CanSeedManual(vis, p) == InBounds(p) /\ p \notin vis

CanPushNeighbour_NoVisited(vis, px, np) ==
    InBounds(np) /\ is_background(px[np])

CanPushNeighbour_NoMatch(vis, px, np) == InBounds(np) /\ np \notin vis

CanPushNeighbour(vis, px, np) ==
    InBounds(np) /\ np \notin vis /\ is_background(px[np])

CanEraseManual_NoBounds(p) == TRUE

CanEraseManual_OnlyMatching(p) == InBounds(p) /\ is_background(pixels[p])

CanEraseManual(p) == InBounds(p)

ShouldErase_SkipTransparent(px, p) ==
    px[p] # Transparent /\ is_background(px[p])

\* line 175
ShouldErase(px, p) == is_background(px[p])

RECURSIVE SeedBorderLoop(_, _)
SeedBorderLoop(s, i) ==
    IF i > Len(BorderSeq) THEN s
    ELSE LET p == BorderSeq[i]
         IN  SeedBorderLoop(IF CanSeedBorder(s.visited, s.pixels, p)
                            THEN Push(s, p) ELSE s, i + 1)

RECURSIVE SeedManualLoop(_, _, _)
SeedManualLoop(s, mp, i) ==
    IF i > Len(mp) THEN s
    ELSE SeedManualLoop(IF CanSeedManual(s.visited, mp[i])
                        THEN Push(s, mp[i]) ELSE s, mp, i + 1)

RECURSIVE NeighbourLoop(_, _, _)
NeighbourLoop(s, c, i) ==
    IF i > Len(Offsets) THEN s
    ELSE LET np == << c[1] + Offsets[i][1], c[2] + Offsets[i][2] >>
         IN  NeighbourLoop(IF CanPushNeighbour(s.visited, s.pixels, np)
                           THEN Push(s, np) ELSE s, c, i + 1)

RECURSIVE EraseManualLoop(_, _, _)
EraseManualLoop(s, mp, i) ==
    IF i > Len(mp) \/ s.pc = "failed" THEN s
    ELSE EraseManualLoop(IF CanEraseManual(mp[i]) THEN Erase(s, mp[i]) ELSE s,
                         mp, i + 1)

LoadOp_NoAssert(s) ==
    [ s EXCEPT !.pc = IF flood_fill THEN "border" ELSE "points", !.count = 0 ]

\* lines 112-123: open, convert, load, size, assert, count = 0
LoadOp(s) ==
    IF width > 0 /\ height > 0
    THEN [ s EXCEPT !.pc = IF flood_fill THEN "border" ELSE "points",
                    !.count = 0 ]
    ELSE [ s EXCEPT !.pc = "failed" ]

\* lines 130-143
SeedBorderOp(s) ==
    [ SeedBorderLoop([ s EXCEPT !.visited = {}, !.stack = <<>> ], 1)
        EXCEPT !.pc = "manual" ]

\* lines 146-151
SeedManualOp(s, mp) == [ SeedManualLoop(s, mp, 1) EXCEPT !.pc = "flood" ]

\* lines 153-163, one iteration of the while loop
FloodOp(s) ==
    LET n == Len(s.stack)
        c == s.stack[n]
        s1 == Erase([ s EXCEPT !.stack = SubSeq(@, 1, n - 1) ], c)
    IN  IF s1.pc = "failed" THEN s1 ELSE NeighbourLoop(s1, c, 1)

\* lines 166-170
EraseManualOp(s, mp) ==
    LET s1 == EraseManualLoop(s, mp, 1)
    IN  IF s1.pc = "failed" THEN s1 ELSE [ s1 EXCEPT !.pc = "scan" ]

\* lines 174-177: the inner loop over x, for the row y
RECURSIVE ScanRowLoop(_, _, _)
ScanRowLoop(s, y, x) ==
    IF x >= width \/ s.pc = "failed" THEN s
    ELSE LET s1 == [ s EXCEPT !.scan = @ + 1 ]
         IN  ScanRowLoop(IF ShouldErase(s.pixels, <<x, y>>)
                         THEN Erase(s1, <<x, y>>) ELSE s1, y, x + 1)

ScanOp_SkipFirstColumn(s) == ScanRowLoop(s, s.scan \div width, 1)

\* lines 173-177, one iteration of the outer loop over y
ScanOp(s) == ScanRowLoop(s, s.scan \div width, 0)

\* line 180
SaveOp(s) == [ s EXCEPT !.saved = << s.pixels >>, !.pc = "done" ]

LoopsDone_Early(s) == s.pc \in { "flood", "scan" }

\* lines 153 and 173-174: the while loop and the two for loops have ended
LoopsDone(s) ==
    \/ s.pc = "flood" /\ s.stack = <<>>
    \/ s.pc = "scan" /\ s.scan = width * height

\* ------------------------------------------------------------- actions
Assign(s) ==
    /\ pc' = s.pc
    /\ pixels' = s.pixels
    /\ visited' = s.visited
    /\ stack' = s.stack
    /\ count' = s.count
    /\ scan' = s.scan
    /\ saved' = s.saved
    /\ pushed' = s.pushed
    /\ erased' = s.erased
    /\ UNCHANGED << width, height, orig, lower_color, upper_color, inverse,
                    flood_fill, use_hsv, manual_points, fp_below, sample,
                    within, bg, hsv_out, prev, mainVars, formVars,
                    packVars >>

Load == pc = "load" /\ Assign(LoadOp(Cur))

SeedBorder == pc = "border" /\ Assign(SeedBorderOp(Cur))

SeedManual == pc = "manual" /\ Assign(SeedManualOp(Cur, manual_points))

FloodStep == pc = "flood" /\ stack # <<>> /\ Assign(FloodOp(Cur))

EraseManual == pc = "points" /\ Assign(EraseManualOp(Cur, manual_points))

ScanStep == pc = "scan" /\ scan < width * height /\ Assign(ScanOp(Cur))

Save == LoopsDone(Cur) /\ Assign(SaveOp(Cur))

\* the pixels of Dark and Light are grey: rgb_to_hsv takes its minc == maxc
\* return, which multiplies nothing, so the rounding choice is immaterial
MatcherIdle ==
    /\ fp_below = [h |-> FALSE, s |-> FALSE]
    /\ sample = Transparent
    /\ within = FALSE
    /\ bg = FALSE
    /\ hsv_out = <<0, 0, 0>>
    /\ prev = <<>>

LightCount(r) == Cardinality({ p \in DOMAIN r : r[p] = Light })

Init ==
    /\ width \in Widths
    /\ height \in 0 .. MaxH
    /\ orig \in [ (0 .. width - 1) \X (0 .. height - 1) -> {Dark, Light} ]
    /\ LightCount(orig) <= MaxLight
    /\ pixels = orig
    /\ \E c \in Configs :
          /\ lower_color = c.lower
          /\ upper_color = c.upper
          /\ use_hsv = c.hsv
    /\ inverse \in BOOLEAN
    /\ flood_fill \in BOOLEAN
    /\ manual_points \in PointLists
    /\ visited = {}
    /\ stack = <<>>
    /\ count = 0
    /\ scan = 0
    /\ pc = "load"
    /\ saved = <<>>
    /\ pushed = <<>>
    /\ erased = <<>>
    /\ MatcherIdle
    /\ MainIdle
    /\ FormsIdle
    /\ PackIdle

Next ==
    \/ Load
    \/ SeedBorder
    \/ SeedManual
    \/ FloodStep
    \/ EraseManual
    \/ ScanStep
    \/ Save

Spec == Init /\ [][Next]_vars

\* the guards of the disjuncts of Next: the steps compute total functions of
\* the state, so a step can be taken exactly when one of the guards holds
CanStep ==
    \/ pc \in { "load", "border", "manual", "points" }
    \/ pc = "flood" /\ stack # <<>>
    \/ pc = "scan" /\ scan < width * height
    \/ LoopsDone(Cur)

\* process_image from a given position to its end, for a given point list
StepOp(s, mp) ==
    CASE s.pc = "load" -> LoadOp(s)
      [] s.pc = "border" -> SeedBorderOp(s)
      [] s.pc = "manual" -> SeedManualOp(s, mp)
      [] s.pc = "points" -> EraseManualOp(s, mp)
      [] LoopsDone(s) -> SaveOp(s)
      [] s.pc = "flood" /\ s.stack # <<>> -> FloodOp(s)
      [] s.pc = "scan" /\ s.scan < width * height -> ScanOp(s)

RECURSIVE Run(_, _)
Run(s, mp) ==
    IF s.pc \in { "done", "failed" } THEN s ELSE Run(StepOp(s, mp), mp)

\* ------------------------------------------------- vocabulary of the claims
Match(p) == is_background(orig[p])

BorderCoords ==
    { p \in Coords : p[1] \in {0, width - 1} \/ p[2] \in {0, height - 1} }

ManualInside == { manual_points[i] : i \in DOMAIN manual_points } \cap Coords

BorderSeeds == { p \in BorderCoords : Match(p) }

Seeds == BorderSeeds \cup ManualInside

Adjacent(p, q) ==
    \/ p[1] = q[1] /\ (p[2] = q[2] + 1 \/ q[2] = p[2] + 1)
    \/ p[2] = q[2] /\ (p[1] = q[1] + 1 \/ q[1] = p[1] + 1)

Neighbours(p) ==
    { <<p[1] - 1, p[2]>>, <<p[1] + 1, p[2]>>,
      <<p[1], p[2] - 1>>, <<p[1], p[2] + 1>> }

\* least set that contains S and every matching pixel adjacent to a member
RECURSIVE Grow(_, _, _)
Grow(S, frontier, matching) ==
    LET new == (UNION { Neighbours(p) : p \in frontier } \cap matching) \ S
    IN  IF new = {} THEN S ELSE Grow(S \cup new, new, matching)

Closure(S) == Grow(S, S, { q \in Coords : Match(q) })

ErasedSet == { erased[i] : i \in DOMAIN erased }

Times(log, p) == Cardinality({ i \in DOMAIN log : log[i] = p })

FloodEnded == flood_fill /\ (pc = "done" \/ (pc = "flood" /\ stack = <<>>))

FloodDone == flood_fill /\ pc = "done"

Scenario3x3 ==
    /\ width = 3 /\ height = 3
    /\ orig = [ p \in (0 .. 2) \X (0 .. 2) |->
                  IF p = <<1, 1>> THEN Light ELSE Dark ]
    /\ lower_color = <<0, 0, 0>> /\ upper_color = <<20, 20, 20>>
    /\ ~use_hsv
    /\ flood_fill
    /\ manual_points = <<>>

\* ------------------------------------------------------------------ claims

\* C1: in flood mode, once the worklist is empty, the pixels that were set to
\* transparent are exactly the closure of the seed set (matching border
\* pixels and in-bounds manual points) under "matching 4-neighbour"; every
\* other pixel still holds its original value.
C1_FloodErasesExactlyClosure ==
    FloodEnded =>
        LET reach == Closure(Seeds)
        IN  /\ ErasedSet = reach
            /\ \A p \in Coords :
                  pixels[p] = IF p \in reach THEN Transparent ELSE orig[p]

C1_Witness ==
    /\ FloodDone
    /\ manual_points # <<>>
    /\ Closure(Seeds) # Seeds
    /\ Closure(Seeds) # Coords
    /\ ErasedSet = Closure(Seeds)

\* C2: in flood mode a matching pixel that no chain of matching 4-neighbours
\* joins to a matching border pixel or to an in-bounds manual point is never
\* written: it holds its original R,G,B,A value in every state of the run.
C2_FloodContainment ==
    (flood_fill /\ erased # <<>>) =>
        LET reach == Closure(Seeds)
        IN  \A p \in Coords :
                (Match(p) /\ p \notin reach) =>
                    (pixels[p] = orig[p] /\ Times(erased, p) = 0)

C2_Witness ==
    /\ FloodDone
    /\ count > 0
    /\ \E p \in Coords :
          Match(p) /\ p \notin Closure(Seeds) /\ pixels[p] = orig[p]

\* C3: in flood mode no coordinate is appended to the worklist twice, over
\* border seeding, manual seeding and neighbour expansion together.
C3_PushedAtMostOnce ==
    flood_fill =>
        \A i, j \in DOMAIN pushed : pushed[i] = pushed[j] => i = j

C3_Witness ==
    /\ FloodDone
    /\ width = 1 /\ height = 3
    /\ Match(<<0, 1>>)
    /\ manual_points = << <<0, 1>>, <<0, 1>> >>
    /\ Times(pushed, <<0, 1>>) = 1

\* C4: in flood mode, when the worklist loop has ended, count equals the size
\* of visited and the number of distinct erased coordinates, and every
\* visited coordinate was popped and erased exactly once.
C4_CountIsVisitedSize ==
    FloodEnded =>
        /\ count = Cardinality(visited)
        /\ count = Cardinality(ErasedSet)
        /\ ErasedSet = visited
        /\ \A p \in visited : Times(erased, p) = 1

C4_Witness ==
    /\ FloodDone
    /\ ManualInside # {}
    /\ BorderSeeds # {}
    /\ count >= 3
    /\ count = Cardinality(visited)

\* C5 as stated: in flood mode, if no border pixel and no manual point's pixel
\* matches the background rule, nothing is modified and the count is 0.
C5_Original ==
    ( /\ FloodDone
      /\ BorderSeeds = {}
      /\ \A p \in ManualInside : ~Match(p) )
    => (count = 0 /\ pixels = orig)

\* C5 (amended): in flood mode, if no border pixel matches the background rule
\* and no manual point lies inside the image, then nothing is pushed, no pixel
\* is modified and the count is 0.
C5_NoSeedNoChange ==
    ( /\ FloodDone
      /\ BorderSeeds = {}
      /\ ManualInside = {} )
    => (count = 0 /\ pixels = orig /\ pushed = <<>> /\ erased = <<>>)

C5_Witness ==
    /\ FloodDone
    /\ BorderSeeds = {}
    /\ ManualInside = {}
    /\ manual_points # <<>>
    /\ \E p \in Coords : Match(p)
    /\ count = 0

\* C6: in flood mode every in-bounds manual point is a seed whether or not its
\* pixel matches: at the end it is transparent, it was erased once, and each
\* of its matching 4-neighbours is transparent too.
C6_ManualSeedUnconditional ==
    FloodDone =>
        \A p \in ManualInside :
            /\ pixels[p] = Transparent
            /\ Times(erased, p) = 1
            /\ \A q \in Coords :
                  (Adjacent(p, q) /\ Match(q)) =>
                      (pixels[q] = Transparent /\ Times(erased, q) = 1)

C6_Witness ==
    /\ FloodDone
    /\ \E p \in ManualInside :
          /\ ~Match(p)
          /\ pixels[p] = Transparent
          /\ \E q \in Coords :
                /\ Adjacent(p, q) /\ Match(q)
                /\ q \notin Closure(BorderSeeds)
                /\ pixels[q] = Transparent

\* C7: a manual point outside the image is ignored in both modes: the run
\* (on an image that has pixels) does not fail, the point is never pushed or erased, and pixels, count and
\* output file equal those of the run on the list without that point.
Start ==
    [ pc |-> "load", pixels |-> orig, visited |-> {}, stack |-> <<>>,
      count |-> 0, scan |-> 0, saved |-> <<>>, pushed |-> <<>>,
      erased |-> <<>> ]

Without(mp, i) == SubSeq(mp, 1, i - 1) \o SubSeq(mp, i + 1, Len(mp))

C7_OutsidePointIgnored ==
    /\ pc = "failed" => width * height = 0
    /\ \A i \in DOMAIN manual_points :
          manual_points[i] \notin Coords =>
              /\ Times(pushed, manual_points[i]) = 0
              /\ Times(erased, manual_points[i]) = 0
              /\ manual_points[i] \notin visited
              /\ pc = "done" =>
                    LET r == Run(Start, Without(manual_points, i))
                    IN  /\ r.pc = "done"
                        /\ r.pixels = pixels
                        /\ r.count = count
                        /\ r.saved = saved

C7_Witness ==
    /\ pc = "done"
    /\ ~flood_fill
    /\ count > 0
    /\ ManualInside # {}
    /\ \E i \in DOMAIN manual_points : manual_points[i] \notin Coords

\* C8 as stated: on the 3x3 image with an out-of-range centre and in-range
\* border, flood fill on, no manual points, inverse set, exactly the centre is
\* erased and the count is 1.
C8_Original ==
    (Scenario3x3 /\ inverse /\ pc = "done") =>
        (count = 1 /\ ErasedSet = { <<1, 1>> })

\* C8 (amended): in that scenario no pixel is erased and the count is 0: with
\* inverse set no border pixel is background, so the centre is never reached.
C8_InverseScenarioErasesNothing ==
    (Scenario3x3 /\ inverse /\ pc = "done") =>
        (count = 0 /\ erased = <<>> /\ pixels = orig /\ saved = << orig >>)

C8_Witness ==
    Scenario3x3 /\ inverse /\ pc = "done" /\ Match(<<1, 1>>) /\ count = 0

\* C9: in flood mode with no manual points a pixel that does not match the
\* background rule is never erased; on the 3x3 image whose border matches and
\* whose centre does not, exactly 8 pixels are erased and the centre is kept.
C9_NonMatchingNeverErased ==
    /\ (flood_fill /\ manual_points = <<>>) =>
          \A p \in Coords :
              ~Match(p) => (pixels[p] = orig[p] /\ Times(erased, p) = 0)
    /\ (Scenario3x3 /\ ~inverse /\ pc = "done") =>
          /\ count = 8
          /\ ErasedSet = Coords \ { <<1, 1>> }
          /\ pixels[<<1, 1>>] = Light

C9_Witness ==
    Scenario3x3 /\ ~inverse /\ pc = "done" /\ pixels[<<1, 1>>] = Light
        /\ pixels[<<0, 0>>] = Transparent

\* C10: in flood mode, if every pixel matches the background rule, all
\* width*height pixels end transparent and the count is width*height.
C10_AllMatchAllErased ==
    (FloodDone /\ \A p \in Coords : Match(p)) =>
        /\ count = width * height
        /\ \A p \in Coords : pixels[p] = Transparent

C10_Witness ==
    /\ FloodDone
    /\ width = 3 /\ height = 3
    /\ \A p \in Coords : orig[p] = Dark
    /\ lower_color = <<0, 0, 0>> /\ upper_color = <<20, 20, 20>>
    /\ ~use_hsv /\ ~inverse
    /\ count = 9

NonFloodDone == ~flood_fill /\ pc = "done"

\* C11: in non-flood mode every pixel whose colour matches the background
\* rule is transparent at the end, wherever it lies, and a pixel that does
\* not match and is not a manual point is never written.
C11_NonFloodErasesEveryMatch ==
    NonFloodDone =>
        \A p \in Coords :
            /\ Match(p) => pixels[p] = Transparent
            /\ (~Match(p) /\ p \notin ManualInside) =>
                  (pixels[p] = orig[p] /\ Times(erased, p) = 0)

C11_Witness ==
    /\ NonFloodDone
    /\ \E p \in Coords :
          Match(p) /\ p \notin Closure(BorderSeeds) /\ pixels[p] = Transparent
    /\ \E q \in Coords \ ManualInside : ~Match(q) /\ pixels[q] = orig[q]

\* C12: in non-flood mode, when the full-image scan is about to start, every
\* in-bounds manual point is transparent and has added 1 to the count per
\* listing, whatever its colour; nothing else has been written, and no pixel
\* is written before the scan except a manual point.
C12_ManualErasedBeforeScan ==
    /\ (~flood_fill /\ pc = "scan" /\ scan = 0) =>
          /\ erased = SelectSeq(manual_points, InBounds)
          /\ count = Len(SelectSeq(manual_points, InBounds))
          /\ \A p \in Coords :
                pixels[p] = IF p \in ManualInside THEN Transparent ELSE orig[p]
    /\ (~flood_fill /\ pc \in { "load", "points" }) =>
          (scan = 0 /\ erased = <<>> /\ pixels = orig)

C12_Witness ==
    /\ ~flood_fill /\ pc = "scan" /\ scan = 0
    /\ count >= 2
    /\ \E p \in ManualInside : ~Match(p) /\ pixels[p] = Transparent
    /\ \E i \in DOMAIN manual_points : manual_points[i] \notin Coords

ListedOnce == { p \in ManualInside : Times(manual_points, p) = 1 }

\* C13 as stated: in non-flood mode an in-bounds manual point whose original
\* colour matches the background rule is counted twice, once when it is
\* force-erased and once by the scan.
C13_Original ==
    NonFloodDone =>
        \A p \in ListedOnce : Match(p) => Times(erased, p) = 2

\* C13 (amended): such a point is counted once when it is force-erased, and
\* once more by the scan exactly when the transparent value (0,0,0,0) it then
\* holds matches the background rule; every write adds 1 to the count.
C13_ManualCountedAgainIfBlackMatches ==
    NonFloodDone =>
        /\ count = Len(erased)
        /\ \A p \in ListedOnce :
              Match(p) =>
                  Times(erased, p) = IF is_background(Transparent) THEN 2 ELSE 1

C13_Witness ==
    /\ NonFloodDone
    /\ \E p \in ListedOnce : Match(p) /\ Times(erased, p) = 2
    /\ count = Len(erased)

\* steps still to take, at most: the loop work left plus the phases ahead
Variant ==
    CASE pc = "load" -> width * height + 4
      [] pc = "border" -> width * height + 3
      [] pc \in { "manual", "points" } -> width * height + 2
      [] pc = "flood" -> width * height - Len(erased) + 1
      [] pc = "scan" -> width * height - scan + 1
      [] OTHER -> 0

\* C14: every run past the dimension check reaches the save and ends there:
\* while the run has not ended a step can be taken, every step lowers a
\* natural number that starts at width*height + 4, the run ends only after
\* the save, and it fails only on an image without pixels; the flood loop
\* pops at most width*height times and the non-flood scan visits exactly
\* width*height pixels.
C14_AlwaysReachesSave ==
    /\ [][Variant' < Variant]_vars
    /\ [](Variant >= 0)
    /\ [](pc \notin { "done", "failed" } => CanStep)
    /\ [](pc = "failed" => width = 0 \/ height = 0)
    /\ [](pc = "done" => saved = << pixels >>)
    /\ [](flood_fill => Len(erased) <= width * height)
    /\ [](NonFloodDone => scan = width * height)

C14_Witness ==
    /\ FloodDone
    /\ width * height >= 6
    /\ Len(erased) = width * height
    /\ saved = << pixels >>

\* ------------------------------------------------ worklist discipline
FloodOpAt_DropRest(s, k) ==
    LET c == s.stack[k]
        s1 == Erase([ s EXCEPT !.stack = SubSeq(@, 1, k - 1) ], c)
    IN  IF s1.pc = "failed" THEN s1 ELSE NeighbourLoop(s1, c, 1)

\* lines 153-163 with the pop taken at position k of the worklist instead of
\* its end: k = Len(s.stack) is the code's stack.pop(), k = 1 a queue
FloodOpAt(s, k) ==
    LET n == Len(s.stack)
        c == s.stack[k]
        rest == SubSeq(s.stack, 1, k - 1) \o SubSeq(s.stack, k + 1, n)
        s1 == Erase([ s EXCEPT !.stack = rest ], c)
    IN  IF s1.pc = "failed" THEN s1 ELSE NeighbourLoop(s1, c, 1)

FloodStepAny ==
    /\ pc = "flood"
    /\ \E k \in 1 .. Len(stack) : Assign(FloodOpAt(Cur, k))

\* the images whose worklist can hold several pixels in many orders
InitAnyOrder ==
    /\ Init
    /\ flood_fill
    /\ Cardinality({ p \in Coords : Match(p) }) <= MaxMatching

NextAnyOrder ==
    \/ Load
    \/ SeedBorder
    \/ SeedManual
    \/ FloodStepAny
    \/ Save

SpecAnyOrder == InitAnyOrder /\ [][NextAnyOrder]_vars

\* C15: whatever position of the worklist each pop takes (the end as in the
\* code, the front as a queue, or any other), the run ends with the raster,
\* the saved file and the count of the code's own last-in-first-out run.
C15_AnyOrderSameResult ==
    pc = "done" =>
        LET lifo == Run(Start, manual_points)
        IN  /\ pixels = lifo.pixels
            /\ saved = lifo.saved
            /\ count = lifo.count

\* a finished run that erased three pixels or more in another order than
\* the code's
C15_Witness ==
    /\ pc = "done"
    /\ Len(erased) >= 3
    /\ erased # Run(Start, manual_points).erased

\* ------------------------------------------------- the matcher by itself
\* channel values: the ends of the range, values next to a bound of Ranges,
\* and 6 and 179, for which the exact hue product is an integer
Comp == { 0, 6, 20, 179, 255 }

Alphas == { 0, 255 }

Samples == { <<r, g, b, a>> : r \in Comp, g \in Comp, b \in Comp, a \in Alphas }

\* lower and upper colours as parse_color returns them: the two are parsed
\* separately, so lower may exceed upper
Ranges ==
    { [ lower |-> <<0, 0, 0>>, upper |-> <<20, 20, 20>> ],
      [ lower |-> <<20, 20, 20>>, upper |-> <<0, 0, 0>> ],
      [ lower |-> <<0, 20, 0>>, upper |-> <<255, 6, 255>> ],
      [ lower |-> <<6, 0, 0>>, upper |-> <<179, 255, 255>> ],
      [ lower |-> <<0, 0, 100>>, upper |-> <<179, 50, 255>> ],
      [ lower |-> <<100, 0, 0>>, upper |-> <<130, 255, 255>> ],
      [ lower |-> <<119, 255, 255>>, upper |-> <<119, 255, 255>> ] }

\* no image is being processed
ProcessIdle ==
    /\ width = 1
    /\ height = 1
    /\ orig = [ p \in { <<0, 0>> } |-> Transparent ]
    /\ pixels = orig
    /\ flood_fill = FALSE
    /\ manual_points = <<>>
    /\ visited = {}
    /\ stack = <<>>
    /\ count = 0
    /\ scan = 0
    /\ saved = <<>>
    /\ pushed = <<>>
    /\ erased = <<>>

InitMatcher ==
    /\ ProcessIdle
    /\ sample \in Samples
    /\ \E c \in Ranges : lower_color = c.lower /\ upper_color = c.upper
    /\ use_hsv \in BOOLEAN
    /\ inverse \in BOOLEAN
    /\ fp_below \in [ h : BOOLEAN, s : BOOLEAN ]
    /\ within = FALSE
    /\ bg = FALSE
    /\ hsv_out = <<0, 0, 0>>
    /\ prev = <<>>
    /\ pc = "classify"
    /\ MainIdle
    /\ FormsIdle
    /\ PackIdle

\* one call of is_background on the sample, with the values it computes
Classify ==
    /\ pc = "classify"
    /\ hsv_out' = rgb_to_hsv_opencv(sample[1], sample[2], sample[3])
    /\ within' = is_within_bounds(sample, lower_color, upper_color, use_hsv)
    /\ bg' = is_background(sample)
    /\ pc' = "classified"
    /\ UNCHANGED << width, height, orig, pixels, lower_color, upper_color,
                    inverse, flood_fill, use_hsv, manual_points, visited,
                    stack, count, scan, saved, pushed, erased, fp_below,
                    sample, prev, mainVars, formVars, packVars >>

\* the same pixel and range again, with --inverse the other way
FlipInverse ==
    /\ pc = "classified"
    /\ prev = <<>>
    /\ prev' = << [ inverse |-> inverse, within |-> within, bg |-> bg ] >>
    /\ inverse' = ~inverse
    /\ pc' = "classify"
    /\ UNCHANGED << width, height, orig, pixels, lower_color, upper_color,
                    flood_fill, use_hsv, manual_points, visited, stack,
                    count, scan, saved, pushed, erased, fp_below, sample,
                    within, bg, hsv_out, mainVars, formVars, packVars >>

NextMatcher ==
    \/ Classify
    \/ FlipInverse

SpecMatcher == InitMatcher /\ [][NextMatcher]_vars

Classified == pc = "classified"

\* C16: is_background is true exactly when is_within_bounds differs from
\* inverse, and the call with inverse the other way, on the same pixel and
\* range, gives the opposite answer; also for a range whose lower colour
\* exceeds its upper colour, in RGB and in HSV.
C16_InversionLaw ==
    Classified =>
        /\ bg = (within # inverse)
        /\ prev # <<>> =>
              /\ prev[1].inverse = ~inverse
              /\ prev[1].within = within
              /\ bg = ~prev[1].bg

\* both calls made on a range with a lower component above the upper one,
\* in HSV, the pixel being background under inverse
C16_Witness ==
    /\ Classified
    /\ prev # <<>>
    /\ use_hsv
    /\ \E i \in 1 .. 3 : lower_color[i] > upper_color[i]
    /\ inverse /\ bg

\* the triple the call compared: the pixel's R,G,B, or its H,S,V
Compared == IF use_hsv THEN hsv_out ELSE << sample[1], sample[2], sample[3] >>

\* C17: is_within_bounds is true exactly when no component of the compared
\* triple is below the lower bound's or above the upper bound's, a component
\* equal to either bound being inside; the bounds are taken as given, so a
\* component whose lower bound exceeds its upper bound matches no pixel.
C17_InclusiveComponentwise ==
    Classified =>
        /\ within = ~(\E i \in 1 .. 3 : \/ Compared[i] < lower_color[i]
                                        \/ Compared[i] > upper_color[i])
        /\ (\E i \in 1 .. 3 : lower_color[i] > upper_color[i]) => ~within

\* a pixel inside with one component on the lower bound and one on the upper
C17_Witness ==
    /\ Classified
    /\ within
    /\ \E i \in 1 .. 3 : Compared[i] = lower_color[i]
    /\ \E i \in 1 .. 3 : Compared[i] = upper_color[i]
    /\ lower_color # upper_color

\* ------------------------------------------------------- alpha channel
SetAlpha(c, a) == << c[1], c[2], c[3], a >>

\* rasters that differ from r in alpha values only: one alpha everywhere, and
\* alpha lowered on every other pixel
AlphaVariants(r) ==
    { [ p \in DOMAIN r |-> SetAlpha(r[p], a) ] : a \in { 0, 128 } }
        \cup { [ p \in DOMAIN r |->
                   IF (p[1] + p[2]) % 2 = 0 THEN SetAlpha(r[p], 7) ELSE r[p] ] }

\* process_image from its start on the raster r
StartOn(r) == [ Start EXCEPT !.pixels = r ]

Range(f) == { f[i] : i \in DOMAIN f }

\* C18: a pixel is classified the same whatever its alpha, and a finished
\* run, flood or not, has erased the coordinates and reports the count that
\* the run on any raster differing only in alpha values has.
C18_AlphaIgnored ==
    /\ pc = "load" /\ manual_points = <<>> =>
          \A c \in Samples : \A a \in { 7, 128 } :
              is_background(SetAlpha(c, a)) = is_background(c)
    /\ pc = "done" =>
          \A r \in AlphaVariants(orig) :
              LET other == Run(StartOn(r), manual_points)
              IN  /\ other.pc = "done"
                  /\ Range(other.erased) = Range(erased)
                  /\ other.count = count

\* a finished run that erased some pixels and left others
C18_Witness ==
    /\ pc = "done"
    /\ count > 0
    /\ \E p \in Coords : pixels[p] # Transparent
    /\ AlphaVariants(orig) # { orig }

\* ------------------------------------------------------ HSV conversion
\* C19: for channel values in 0..255 the conversion returns h in 0..179,
\* s in 0..255 and v in 0..255.
C19_HsvInRange ==
    Classified =>
        /\ sample[1] \in 0 .. 255 /\ sample[2] \in 0 .. 255
        /\ sample[3] \in 0 .. 255
        /\ hsv_out[1] \in 0 .. 179
        /\ hsv_out[2] \in 0 .. 255
        /\ hsv_out[3] \in 0 .. 255

\* a red just below the wrap of the hue circle, fully saturated and bright
C19_Witness ==
    /\ Classified
    /\ sample[2] < sample[3]
    /\ hsv_out[1] >= 178
    /\ hsv_out[2] = 255
    /\ hsv_out[3] = 255

\* the standard hue of (r, g, b) is 60 * HueNum / HueDen degrees, its
\* saturation SatNum / SatDen and its value ValNum / 255
HueDen(r, g, b) == Max3(r, g, b) - Min3(r, g, b)

HueNum(r, g, b) ==
    LET maxc == Max3(r, g, b)
        rangec == HueDen(r, g, b)
        num == IF r = maxc THEN g - b
               ELSE IF g = maxc THEN 2 * rangec + b - r
               ELSE 4 * rangec + r - g
    IN  num % (6 * rangec)

\* floor(hue_degrees / 2), floor(255 * s), floor(255 * v)
HalfDegreeHsv(r, g, b) ==
    IF Max3(r, g, b) = Min3(r, g, b) THEN << 0, 0, Max3(r, g, b) >>
    ELSE << (30 * HueNum(r, g, b)) \div HueDen(r, g, b),
            (255 * HueDen(r, g, b)) \div Max3(r, g, b),
            Max3(r, g, b) >>

\* C20: the conversion returns floor(hue_degrees / 2), floor(255 * s) and
\* floor(255 * v); pure blue, hue 240 degrees, gets H = 120.
C20_HalfDegreeHue ==
    Classified => hsv_out = HalfDegreeHsv(sample[1], sample[2], sample[3])

\* ------------------------------------------------------ dimension check
\* C24: on an image of zero width or zero height the first step fails the
\* assertion of line 121 and nothing follows it: no seeding, no pixel read
\* or write, no save.
C24_ZeroDimensionRejected ==
    /\ [][width = 0 \/ height = 0 => pc' = "failed"]_vars
    /\ [](width = 0 \/ height = 0 =>
            /\ pc \in { "load", "failed" }
            /\ pc = "failed" => ~CanStep
            /\ pixels = orig
            /\ saved = <<>>
            /\ visited = {} /\ stack = <<>>
            /\ pushed = <<>> /\ erased = <<>>
            /\ count = 0 /\ scan = 0)

C24_Witness ==
    /\ pc = "failed"
    /\ width = 0 /\ height > 0
    /\ flood_fill
    /\ manual_points # <<>>

\* ----------------------------------------------------------- the save
\* C23: the file is written by one step only, taken when the worklist is
\* empty (flood) or the scan has visited every pixel (non-flood); it holds
\* the raster of that moment, no pixel changes and no second save follows,
\* and a run that failed has saved nothing.
C23_SaveAfterLastMutation ==
    /\ [][saved' # saved =>
            /\ saved = <<>>
            /\ \/ pc = "flood" /\ stack = <<>>
               \/ pc = "scan" /\ scan = width * height
            /\ pixels' = pixels
            /\ saved' = << pixels >>
            /\ pc' = "done"]_vars
    /\ [][saved # <<>> => pixels' = pixels /\ saved' = saved]_vars
    /\ [](saved # <<>> => pc = "done" /\ saved = << pixels >>)
    /\ [](pc = "failed" => saved = <<>> /\ pixels = orig)

\* a saved non-flood run that erased pixels and kept others
C23_Witness ==
    /\ NonFloodDone
    /\ saved = << pixels >>
    /\ count > 0
    /\ \E p \in Coords : pixels[p] # Transparent

\* ------------------------------------------------------- pixel values
\* C25: in every state of a run, flood or not, a pixel that was erased is
\* (0,0,0,0) in all four channels and any other pixel holds its original
\* R,G,B,A; no step changes a pixel that is (0,0,0,0) after an erasure.
C25_TransparentOrOriginal ==
    /\ [](\A p \in Coords :
            IF Times(erased, p) > 0
            THEN pixels[p] = Transparent
            ELSE pixels[p] = orig[p])
    /\ [][\A p \in Coords :
            Times(erased, p) > 0 => pixels'[p] = pixels[p]]_vars

\* a finished non-flood run in which a manual point was erased and reached
\* again by the scan
C25_Witness ==
    /\ NonFloodDone
    /\ \E p \in Coords : Times(erased, p) = 2
    /\ \E p \in Coords : pixels[p] = orig[p]

\* ------------------------------------------------------ loop invariant
InFloodLoop == flood_fill /\ pc \in { "flood", "done" }

\* C27: at every test of the worklist loop's condition, and after the loop,
\* each coordinate on the stack is in visited and is on the stack once, count
\* is |visited| minus the stack length, the coordinates set to (0,0,0,0) are
\* those of visited that are not on the stack, and visited lies in bounds.
C27_FloodLoopInvariant ==
    InFloodLoop =>
        /\ \A i \in DOMAIN stack : stack[i] \in visited
        /\ \A i, j \in DOMAIN stack : stack[i] = stack[j] => i = j
        /\ count = Cardinality(visited) - Len(stack)
        /\ \A p \in Coords \cup visited :
              (Times(erased, p) > 0) = (p \in visited /\ Times(stack, p) = 0)
        /\ \A p \in Coords : (pixels[p] # orig[p]) => Times(erased, p) > 0
        /\ \A p \in visited : InBounds(p)

\* in the middle of the loop: pixels already popped and several waiting
C27_Witness ==
    /\ flood_fill /\ pc = "flood"
    /\ Len(stack) >= 2
    /\ count >= 2
    /\ Cardinality(visited) < width * height

\* ------------------------------------------------------ reported count
\* C29: the count of modified pixels never exceeds the number of pixels
\* width*height, in flood mode and in non-flood mode, whatever the manual
\* point list.
C29_CountAtMostPixels == count <= width * height

\* --------------------------------------------------------- second run
\* process_image run again on the file the first run saved
Again == Run(StartOn(saved[1]), manual_points)

\* C28: a second run on the saved output, with the same range, inverse flag,
\* colour space, mode and manual points, ends normally and leaves every pixel
\* as the first run saved it, in flood mode and in non-flood mode.
C28_SecondRunChangesNothing ==
    pc = "done" =>
        /\ Again.pc = "done"
        /\ Again.pixels = pixels
        /\ Again.saved = saved

\* a first run that erased some pixels and kept others, whose second run
\* reports another count
C28_Witness ==
    /\ pc = "done"
    /\ pixels # orig
    /\ \E p \in Coords : pixels[p] # Transparent
    /\ Again.count # count

\* ------------------------------------------------------------- main
\* a str is the sequence of its characters
Digits == { "0", "1", "2", "3", "4", "5", "6", "7", "8", "9" }

DigitValue(c) ==
    CASE c = "0" -> 0 [] c = "1" -> 1 [] c = "2" -> 2 [] c = "3" -> 3
      [] c = "4" -> 4 [] c = "5" -> 5 [] c = "6" -> 6 [] c = "7" -> 7
      [] c = "8" -> 8 [] c = "9" -> 9

\* str.split(','): the pieces between the commas, empty pieces included
RECURSIVE SplitFrom(_, _, _)
SplitFrom(str, k, piece) ==
    IF k > Len(str) THEN << piece >>
    ELSE IF str[k] = "," THEN << piece >> \o SplitFrom(str, k + 1, <<>>)
    ELSE SplitFrom(str, k + 1, Append(piece, str[k]))

split(str) == SplitFrom(str, 1, <<>>)

\* str.strip()
RECURSIVE lstrip(_)
lstrip(t) == IF t # <<>> /\ t[1] = " " THEN lstrip(Tail(t)) ELSE t

RECURSIVE rstrip(_)
rstrip(t) ==
    IF t # <<>> /\ t[Len(t)] = " " THEN rstrip(SubSeq(t, 1, Len(t) - 1)) ELSE t

strip(t) == rstrip(lstrip(t))

\* int(t.strip()) succeeds: an optional sign, then digits only
Unsigned(t) == IF t # <<>> /\ t[1] = "-" THEN Tail(t) ELSE t

IsIntLiteral(t) ==
    LET d == Unsigned(strip(t))
    IN  d # <<>> /\ \A k \in DOMAIN d : d[k] \in Digits

RECURSIVE Magnitude(_)
Magnitude(d) ==
    IF d = <<>> THEN 0
    ELSE 10 * Magnitude(SubSeq(d, 1, Len(d) - 1)) + DigitValue(d[Len(d)])

\* int(t.strip())
int_of(t) ==
    LET u == strip(t)
    IN  IF u[1] = "-" THEN 0 - Magnitude(Tail(u)) ELSE Magnitude(u)

\* raise ValueError(...)
Raised == [ ok |-> FALSE, value |-> <<>> ]

parse_color_NoRangeCheck(color_str) ==
    LET parts == split(color_str)
    IN  IF Len(parts) # 3 THEN Raised
        ELSE IF \E k \in 1 .. 3 : ~IsIntLiteral(parts[k]) THEN Raised
        ELSE [ ok |-> TRUE, value |-> [ k \in 1 .. 3 |-> int_of(parts[k]) ] ]

\* lines 13-27
parse_color(color_str) ==
    LET parts == split(color_str)
    IN  IF Len(parts) # 3 THEN Raised
        ELSE IF \E k \in 1 .. 3 : ~IsIntLiteral(parts[k]) THEN Raised
        ELSE LET rgb == [ k \in 1 .. 3 |-> int_of(parts[k]) ]
             IN  IF \A k \in 1 .. 3 : 0 <= rgb[k] /\ rgb[k] <= 255
                 THEN [ ok |-> TRUE, value |-> rgb ]
                 ELSE Raised

\* lines 30-38
parse_point(point_str) ==
    LET parts == split(point_str)
    IN  IF Len(parts) # 2 THEN Raised
        ELSE IF \E k \in 1 .. 2 : ~IsIntLiteral(parts[k]) THEN Raised
        ELSE [ ok |-> TRUE, value |-> << int_of(parts[1]), int_of(parts[2]) >> ]

\* colour strings of the command line
ColorArgs ==
    {
      \* "0,0,0"
      << "0", ",", "0", ",", "0" >>,
      \* "20,20,20"
      << "2", "0", ",", "2", "0", ",", "2", "0" >>,
      \* " 20 , 20,20 "
      << " ", "2", "0", " ", ",", " ", "2", "0", ",", "2", "0", " " >>,
      \* "200,0,0"
      << "2", "0", "0", ",", "0", ",", "0" >>,
      \* "256,0,0"
      << "2", "5", "6", ",", "0", ",", "0" >>,
      \* "-1,0,0"
      << "-", "1", ",", "0", ",", "0" >>,
      \* "0,0"
      << "0", ",", "0" >>,
      \* "0,0,0,0"
      << "0", ",", "0", ",", "0", ",", "0" >>,
      \* "x,0,0"
      << "x", ",", "0", ",", "0" >>,
      \* ""
      <<>>,
      \* "0,,0"
      << "0", ",", ",", "0" >>,
      \* "2 0,0,0"
      << "2", " ", "0", ",", "0", ",", "0" >> }

\* the strings after -p
PointArgs ==
    {
      \* no -p option
      <<>>,
      \* "0,1"
      << << "0", ",", "1" >> >>,
      \* " 1 , 1 "
      << << " ", "1", " ", ",", " ", "1", " " >> >>,
      \* "-1,0" "0,1"
      << << "-", "1", ",", "0" >>, << "0", ",", "1" >> >>,
      \* "0,1" "x,1"
      << << "0", ",", "1" >>, << "x", ",", "1" >> >>,
      \* "0"
      << << "0" >> >>,
      \* "0,1,2"
      << << "0", ",", "1", ",", "2" >> >>,
      \* "0,1" ""
      << << "0", ",", "1" >>, <<>> >> }

\* the file given as input: two dark pixels over a dark and a light one
InitMain ==
    /\ width = 2
    /\ height = 2
    /\ orig = [ p \in (0 .. 1) \X (0 .. 1) |->
                  IF p = <<1, 1>> THEN Light ELSE Dark ]
    /\ pixels = orig
    /\ argv \in [ lower_color : ColorArgs, upper_color : ColorArgs,
                  points : PointArgs ]
    /\ exit_status = <<>>
    /\ lower_color = <<>>
    /\ upper_color = <<>>
    /\ manual_points = <<>>
    /\ inverse \in BOOLEAN
    /\ flood_fill \in BOOLEAN
    /\ use_hsv \in BOOLEAN
    /\ visited = {}
    /\ stack = <<>>
    /\ count = 0
    /\ scan = 0
    /\ pc = "colors"
    /\ saved = <<>>
    /\ pushed = <<>>
    /\ erased = <<>>
    /\ MatcherIdle
    /\ FormsIdle
    /\ PackIdle

\* lines 215-220: print(..., file=sys.stderr); sys.exit(1)
ExitWithError(msg) ==
    /\ exit_status' = << [ code |-> 1, stderr |-> msg ] >>
    /\ pc' = "exit"

\* lines 214-220
ParseColors ==
    /\ pc = "colors"
    /\ LET lower == parse_color(argv.lower_color)
           upper == parse_color(argv.upper_color)
       IN  IF lower.ok /\ upper.ok
           THEN /\ lower_color' = lower.value
                /\ upper_color' = upper.value
                /\ pc' = "parse_points"
                /\ UNCHANGED exit_status
           ELSE /\ ExitWithError("Error: Invalid color format")
                /\ UNCHANGED << lower_color, upper_color >>
    /\ UNCHANGED << width, height, orig, pixels, inverse, flood_fill, use_hsv,
                    manual_points, visited, stack, count, scan, saved, pushed,
                    erased, fp_below, sample, within, bg, hsv_out, prev, argv,
                    formVars, packVars >>

\* lines 222-232: parse every point, then call process_image
ParsePoints ==
    /\ pc = "parse_points"
    /\ IF \A k \in DOMAIN argv.points : parse_point(argv.points[k]).ok
       THEN /\ manual_points' =
                   [ k \in DOMAIN argv.points |->
                       parse_point(argv.points[k]).value ]
            /\ pc' = "load"
            /\ UNCHANGED exit_status
       ELSE /\ ExitWithError("Error: Invalid point format")
            /\ UNCHANGED manual_points
    /\ UNCHANGED << width, height, orig, pixels, lower_color, upper_color,
                    inverse, flood_fill, use_hsv, visited, stack, count, scan,
                    saved, pushed, erased, fp_below, sample, within, bg,
                    hsv_out, prev, argv, formVars, packVars >>

NextMain ==
    \/ ParseColors
    \/ ParsePoints
    \/ Next

SpecMain == InitMain /\ [][NextMain]_vars

\* a colour string that is not three comma-separated integers in 0..255
MalformedColor(str) ==
    \/ Len(split(str)) # 3
    \/ \E k \in DOMAIN split(str) : ~IsIntLiteral(split(str)[k])
    \/ \E k \in DOMAIN split(str) :
          int_of(split(str)[k]) < 0 \/ int_of(split(str)[k]) > 255

\* a point string that is not two comma-separated integers
MalformedPoint(str) ==
    \/ Len(split(str)) # 2
    \/ \E k \in DOMAIN split(str) : ~IsIntLiteral(split(str)[k])

MalformedArgs ==
    \/ MalformedColor(argv.lower_color)
    \/ MalformedColor(argv.upper_color)
    \/ \E k \in DOMAIN argv.points : MalformedPoint(argv.points[k])

InMain == pc \in { "colors", "parse_points", "exit" }

Untouched ==
    /\ pixels = orig /\ saved = <<>>
    /\ count = 0 /\ pushed = <<>> /\ erased = <<>>

\* C21: with a malformed lower colour, upper colour or point string, main
\* never calls process_image: it stays in its validation, which ends by
\* reporting the error and exiting with status 1, the image unopened and
\* nothing written; with well-formed strings, surrounding blanks included,
\* it never exits with an error.
C21_MalformedArgsRejected ==
    /\ [](MalformedArgs => InMain /\ Untouched)
    /\ [](InMain => Untouched)
    /\ [][(MalformedColor(argv.lower_color) \/ MalformedColor(argv.upper_color))
            => pc' = "exit"]_vars
    /\ [][(MalformedArgs /\ pc = "parse_points") => pc' = "exit"]_vars
    /\ [](pc = "exit" <=>
            /\ exit_status # <<>>
            /\ exit_status[1].code # 0
            /\ exit_status[1].stderr # "")
    /\ [](pc = "exit" => MalformedArgs)

\* a rejected point string after two accepted colours, one of them written
\* with blanks around its numbers
C21_Witness ==
    /\ pc = "exit"
    /\ lower_color = <<20, 20, 20>>
    /\ Len(argv.lower_color) > 8
    /\ upper_color # <<>>
    /\ exit_status[1].stderr = "Error: Invalid point format"

\* a colour string that parses and whose first component is above 179
HueOutOfRange(str) ==
    /\ ~MalformedColor(str)
    /\ int_of(split(str)[1]) \in 180 .. 255

\* C22: with --hsv, a lower or upper colour whose first component is in
\* 180..255 is rejected as out of range: main exits with an error and the
\* image is not opened.
C22_HsvHueRangeRejected ==
    ( /\ use_hsv
      /\ HueOutOfRange(argv.lower_color) \/ HueOutOfRange(argv.upper_color) )
    => /\ pc \in { "colors", "exit" }
       /\ Untouched

\* ------------------------------------- build_all_form_display_map.py
\* two species of the national dex, and two slugs that are not species
pokedex == { "abra", "eevee" }

Slugs == pokedex \cup { "x", "y" }

\* the new_forms argument: a list of one or two slugs, repeats included
FormLists ==
    { << f >> : f \in Slugs }
        \cup { << f, g >> : f \in Slugs, g \in Slugs \ pokedex }

Has(list, f) == \E k \in DOMAIN list : list[k] = f

\* key in all_form_map
HasKey(m, key) == \E k \in DOMAIN m : m[k][1] = key

\* all_form_map[key]
FormsOf(m, key) == m[CHOOSE k \in DOMAIN m : m[k][1] = key][2]

\* all_form_map[key] = forms: a new key goes to the end of the dict
SetForms(m, key, forms) ==
    IF HasKey(m, key)
    THEN [ k \in DOMAIN m |-> IF m[k][1] = key THEN << key, forms >> ELSE m[k] ]
    ELSE Append(m, << key, forms >>)

\* a call that raised leaves the dict as it was
Failed(m) == [ ok |-> FALSE, map |-> m ]

\* the items whose list holds the form, in dict order
Holders(m, form) == { k \in DOMAIN m : Has(m[k][2], form) }

FirstOf(S) == CHOOSE k \in S : \A j \in S : k <= j

\* lines 74-76 and 79-81: append each new form that the list does not hold
RECURSIVE AppendMissing(_, _, _)
AppendMissing(list, new_forms, k) ==
    IF k > Len(new_forms) THEN list
    ELSE AppendMissing(IF Has(list, new_forms[k]) THEN list
                       ELSE Append(list, new_forms[k]), new_forms, k + 1)

add_new_forms_from_base_KeyIsBase(m, base_form, new_forms) ==
    IF HasKey(m, base_form)
    THEN [ ok |-> TRUE,
           map |-> SetForms(m, base_form,
                            AppendMissing(FormsOf(m, base_form), new_forms, 1)) ]
    ELSE [ ok |-> TRUE,
           map |-> SetForms(m, base_form, << base_form >> \o new_forms) ]

\* lines 58-81, with find_form_species_name (lines 47-55)
add_new_forms_from_base(m, base_form, new_forms) ==
    IF base_form \in pokedex
    THEN IF ~HasKey(m, base_form)
         THEN [ ok |-> TRUE,
                map |-> SetForms(m, base_form, << base_form >> \o new_forms) ]
         ELSE [ ok |-> TRUE,
                map |-> SetForms(m, base_form,
                                 AppendMissing(FormsOf(m, base_form),
                                               new_forms, 1)) ]
    ELSE IF Holders(m, base_form) = {} THEN Failed(m)
    ELSE LET species_name == m[FirstOf(Holders(m, base_form))][1]
         IN  [ ok |-> TRUE,
               map |-> SetForms(m, species_name,
                                AppendMissing(FormsOf(m, species_name),
                                              new_forms, 1)) ]

\* lines 84-114.  When base_form is no species and no list holds it, the
\* for loop ends without break: species_name is the last key, or unbound on
\* an empty dict; either way the call raises before the dict is written.
replace_form_with_new_forms(m, base_form, new_forms) ==
    IF base_form \in pokedex /\ ~HasKey(m, base_form)
    THEN [ ok |-> TRUE, map |-> SetForms(m, base_form, new_forms) ]
    ELSE IF base_form \notin pokedex /\ Holders(m, base_form) = {}
    THEN Failed(m)
    ELSE LET species_name ==
                 IF base_form \in pokedex THEN base_form
                 ELSE m[FirstOf(Holders(m, base_form))][1]
             form_list == FormsOf(m, species_name)
         IN  IF ~Has(form_list, base_form) THEN Failed(m)
             ELSE LET base_idx ==
                          FirstOf({ k \in DOMAIN form_list :
                                      form_list[k] = base_form })
                  IN  [ ok |-> TRUE,
                        map |-> SetForms(m, species_name,
                                    SubSeq(form_list, 1, base_idx - 1)
                                        \o new_forms
                                        \o SubSeq(form_list, base_idx + 1,
                                                  Len(form_list))) ]

AllForms(m) == UNION { { m[k][2][j] : j \in DOMAIN m[k][2] } : k \in DOMAIN m }

\* the call passes slugs that are new: no repeat among them, none a species
\* name, none held by a list of the dict
FreshForms(m, new_forms) ==
    /\ \A j, k \in DOMAIN new_forms : new_forms[j] = new_forms[k] => j = k
    /\ \A k \in DOMAIN new_forms :
          new_forms[k] \notin pokedex /\ new_forms[k] \notin AllForms(m)

CallsMade == IF call_log = <<>> THEN 0 ELSE call_log[1].n

AllFresh == call_log = <<>> \/ call_log[1].fresh

\* one call from the script's build loops (lines 152-202)
Called(result, new_forms) ==
    /\ all_form_map' = result.map
    /\ call_log' = << [ n |-> CallsMade + 1,
                        fresh |-> AllFresh /\ FreshForms(all_form_map, new_forms),
                        ok |-> result.ok ] >>
    /\ UNCHANGED << width, height, orig, pixels, lower_color, upper_color,
                    inverse, flood_fill, use_hsv, manual_points, visited,
                    stack, count, scan, pc, saved, pushed, erased, fp_below,
                    sample, within, bg, hsv_out, prev, mainVars, packVars >>

AddNewForms ==
    /\ pc = "build"
    /\ CallsMade < MaxCalls
    /\ \E base_form \in Slugs, new_forms \in FormLists :
          Called(add_new_forms_from_base(all_form_map, base_form, new_forms),
                 new_forms)

ReplaceForm ==
    /\ pc = "build"
    /\ CallsMade < MaxCalls
    /\ \E base_form \in Slugs, new_forms \in FormLists :
          Called(replace_form_with_new_forms(all_form_map, base_form,
                                             new_forms), new_forms)

InitForms ==
    /\ ProcessIdle
    /\ lower_color = <<0, 0, 0>>
    /\ upper_color = <<0, 0, 0>>
    /\ use_hsv = FALSE
    /\ inverse = FALSE
    /\ MatcherIdle
    /\ MainIdle
    /\ all_form_map = <<>>
    /\ call_log = <<>>
    /\ PackIdle
    /\ pc = "build"

NextForms ==
    \/ AddNewForms
    \/ ReplaceForm

SpecForms == InitForms /\ [][NextForms]_vars

\* lines 208-216
KeysInPokedex == \A k \in DOMAIN all_form_map : all_form_map[k][1] \in pokedex

NoRepeatInList ==
    \A k \in DOMAIN all_form_map :
        \A i, j \in DOMAIN all_form_map[k][2] :
            all_form_map[k][2][i] = all_form_map[k][2][j] => i = j

NoSharedSlug ==
    \A k, l \in DOMAIN all_form_map :
        k # l => \A i \in DOMAIN all_form_map[k][2] :
                    ~Has(all_form_map[l][2], all_form_map[k][2][i])

\* C26 as stated: after any sequence of calls every key is a species, no
\* list holds a slug twice and no slug is in the lists of two species.
C26_Original == KeysInPokedex /\ NoRepeatInList /\ NoSharedSlug

\* C26 (amended): after any sequence of calls every key is a species and
\* is the key of one item; no list holds a slug twice and no slug is in two
\* lists provided every call passed new slugs (no repeat among them, none a
\* species name, none already in a list).
C26_SanityHoldsForFreshForms ==
    /\ KeysInPokedex
    /\ \A k, l \in DOMAIN all_form_map :
          all_form_map[k][1] = all_form_map[l][1] => k = l
    /\ AllFresh => NoRepeatInList /\ NoSharedSlug

\* both species have forms, one given through a form name, after calls of
\* both kinds that all passed new slugs
C26_Witness ==
    /\ CallsMade = 3
    /\ AllFresh
    /\ call_log[1].ok
    /\ Len(all_form_map) = 2
    /\ AllForms(all_form_map) = Slugs

\* -------------------------------- build_home_sprite_combined_image.py
SpriteSizes == { 1, 2 }

\* int(math.sqrt(n)): math.sqrt is correctly rounded, so for these n the
\* truncation is the integer square root
IntSqrt(n) == CHOOSE r \in 0 .. n : r * r <= n /\ (r + 1) * (r + 1) > n

CeilDiv_Floor(a, b) == a \div b

\* math.ceil(a / b) for positive integers far below 2^53
CeilDiv(a, b) == IF a % b = 0 THEN a \div b ELSE a \div b + 1

InitPacking ==
    /\ ProcessIdle
    /\ lower_color = <<0, 0, 0>>
    /\ upper_color = <<0, 0, 0>>
    /\ use_hsv = FALSE
    /\ inverse = FALSE
    /\ MatcherIdle
    /\ MainIdle
    /\ FormsIdle
    /\ n_sprites \in 0 .. MaxSprites
    /\ sprite_size \in SpriteSizes
    /\ n_sprites_in_row = 0
    /\ n_sprites_in_col = 0
    /\ sprite_i = 0
    /\ spriteLocations = <<>>
    /\ pc = "layout"

PackingStep ==
    UNCHANGED << width, height, orig, pixels, lower_color, upper_color,
                 inverse, flood_fill, use_hsv, manual_points, visited, stack,
                 count, scan, saved, pushed, erased, fp_below, sample, within,
                 bg, hsv_out, prev, mainVars, formVars, n_sprites,
                 sprite_size >>

\* lines 95-110; with no sprite the division by int(sqrt(0)) raises
Layout ==
    /\ pc = "layout"
    /\ IF IntSqrt(n_sprites) = 0
       THEN /\ pc' = "failed"
            /\ UNCHANGED << n_sprites_in_row, n_sprites_in_col >>
       ELSE /\ n_sprites_in_row' = IntSqrt(n_sprites)
            /\ n_sprites_in_col' = CeilDiv(n_sprites, IntSqrt(n_sprites))
            /\ pc' = "place"
    /\ UNCHANGED << sprite_i, spriteLocations >>
    /\ PackingStep

\* lines 112-124, one iteration
PlaceSprite ==
    /\ pc = "place"
    /\ sprite_i < n_sprites
    /\ LET x == sprite_i % n_sprites_in_row
           y == sprite_i \div n_sprites_in_row
       IN  spriteLocations' =
               Append(spriteLocations,
                      [ top |-> y * sprite_size, left |-> x * sprite_size ])
    /\ sprite_i' = sprite_i + 1
    /\ UNCHANGED << pc, n_sprites_in_row, n_sprites_in_col >>
    /\ PackingStep

\* lines 126-131
WriteSprites ==
    /\ pc = "place"
    /\ sprite_i = n_sprites
    /\ pc' = "written"
    /\ UNCHANGED << sprite_i, spriteLocations, n_sprites_in_row,
                    n_sprites_in_col >>
    /\ PackingStep

NextPacking ==
    \/ Layout
    \/ PlaceSprite
    \/ WriteSprites

SpecPacking == InitPacking /\ [][NextPacking]_vars

\* the canvas of line 110
CanvasHeight == sprite_size * n_sprites_in_col

CanvasWidth == sprite_size * n_sprites_in_row

\* C30: for n >= 1 sprites the layout is int(sqrt(n)) sprites in a row and
\* ceil(n / row) in a column; sprite i is placed at x = i mod row < row and
\* y = i div row < col, its square lies inside the canvas, two indices never
\* get the same location, and all n sprites are placed.
C30_SpritesInsideCanvas ==
    /\ pc = "failed" => n_sprites = 0
    /\ pc \in { "place", "written" } =>
          /\ n_sprites >= 1
          /\ n_sprites_in_row >= 1
          /\ n_sprites_in_row * n_sprites_in_row <= n_sprites
          /\ (n_sprites_in_row + 1) * (n_sprites_in_row + 1) > n_sprites
          /\ n_sprites_in_col * n_sprites_in_row >= n_sprites
          /\ (n_sprites_in_col - 1) * n_sprites_in_row < n_sprites
          /\ \A k \in DOMAIN spriteLocations :
                LET loc == spriteLocations[k]
                IN  /\ loc.left = ((k - 1) % n_sprites_in_row) * sprite_size
                    /\ loc.top = ((k - 1) \div n_sprites_in_row) * sprite_size
                    /\ 0 <= loc.left /\ loc.left + sprite_size <= CanvasWidth
                    /\ 0 <= loc.top /\ loc.top + sprite_size <= CanvasHeight
          /\ \A j, k \in DOMAIN spriteLocations :
                spriteLocations[j] = spriteLocations[k] => j = k
          /\ pc = "written" => Len(spriteLocations) = n_sprites

\* all sprites placed on a canvas whose last row is not full
C30_Witness ==
    /\ pc = "written"
    /\ n_sprites >= 10
    /\ Len(spriteLocations) = n_sprites
    /\ n_sprites_in_row * n_sprites_in_col > n_sprites
    /\ sprite_size > 1
====
